---------------------------- MODULE Spec2Model ----------------------------
(***************************************************************************)
(* Model of the GraphQL resolvers of the e-shop server                     *)
(* (src/server/src/schemas/resolvers.ts).                                  *)
(*                                                                         *)
(* Every resolver is an async function: each `await` on the document store *)
(* is a point where another request may run.  A request occupies a slot;   *)
(* one action of the model is the code of a resolver between two awaits,   *)
(* together with the store operation it awaits.  Store operations          *)
(* (findById, findByIdAndUpdate, findByIdAndDelete, create, save) are each *)
(* atomic on one document.  `doc.save()` writes the paths the resolver     *)
(* modified on its loaded copy: `stock`, or `reviews.<i>.review` /         *)
(* `reviews.<i>.rating`, or `basket.<i>.quantity` (by array position).     *)
(***************************************************************************)
EXTENDS Integers, Sequences, FiniteSets, TLC

(***************************************************************************)
(* Bounds of the model.                                                    *)
(***************************************************************************)
MaxCalls == 3
MaxStock == 1
\* requests per behaviour of the specification of overlapping checkouts
MaxOverlap == 2

Products == {"p1", "p2"}
Users == {"u1", "u2"}
Slots == {1, 2}
NoUser == "anonymous"
NoProduct == "noproduct"
NullElem == "null"
Categories == {"c1"}
\* list price and sale price in thousandths of the currency unit; Undefined
\* stands for a field the document does not have
Undefined == -1
Pricing(price, onSale, salePrice) == [price |-> price, onSale |-> onSale, salePrice |-> salePrice]
Callers == Users \cup {NoUser}
\* the catalog resolvers only test context.user for presence
CatalogCallers == {"u1", NoUser}
\* GraphQL Int! arguments: any 32 bit integer is accepted, negative and zero included
Qtys == {-1, 0, 1}
\* a request without identity is rejected before its arguments are read:
\* one representative argument stands for all
ArgProducts(c) == IF c = NoUser THEN {"p1"} ELSE Products
ArgQtys(c) == IF c = NoUser THEN {1} ELSE Qtys

VARIABLES
    status,   \* Product collection: "absent" (id never used), "live", "deleted"
    stock,    \* Product.stock
    reviews,  \* Product.reviews: sequence of [username, review, rating]
    basket,   \* User.basket: sequence of [product, quantity]
    orders,   \* User.orders: sequence of [products, purchaseDate]
    pricing,  \* Product.price, Product.onSale, Product.salePrice
    category, \* Category collection: [status, products]
    account,  \* User collection: "absent" (never registered), "live"
    clock,    \* the server's clock, in milliseconds
    req,      \* per slot: the request in flight (its arguments, loaded documents)
    last,     \* history: the request that completed last, with its result
    calls,    \* history: number of requests started
    ledger    \* history, per product: the stock at creation, the sum of the quantities of the
              \* successful removeStock calls, whether one of them had a quantity < 1,
              \* and the number of successful addStock calls

dbVars == <<status, stock, reviews, basket, orders, pricing, category, account>>
shopVars == <<orders, pricing, category, account>>
vars == <<status, stock, reviews, basket, orders, pricing, category, account, clock, req, last,
          calls, ledger>>

NoDoc == [stock |-> 0, reviews |-> <<>>]

NewLedger(q) == [init |-> q, removed |-> 0, nonpos |-> FALSE, adds |-> 0]

IdleReq ==
    [pc |-> "idle", op |-> "none", caller |-> NoUser, p |-> NoProduct, qty |-> 0,
     body |-> "", rating |-> 0, prod |-> NoDoc, usr |-> <<>>, idx |-> 0,
     cat |-> "nocategory", who |-> "anonymous", password |-> "", referer |-> "", items |-> <<>>,
     stamp |-> 0, ords |-> <<>>,
     found |-> <<>>, lines |-> <<>>, result |-> "none"]

NewReq(op, caller, p, qty, body, rating) ==
    [IdleReq EXCEPT !.op = op, !.caller = caller, !.p = p, !.qty = qty,
                    !.body = body, !.rating = rating]

\* Product.findById(productId): the document, or null
ProductFindById(p) == [stock |-> stock[p], reviews |-> reviews[p]]

\* a lookup that still returns the document of a deleted product
ProductFoundOrDeleted(p) == status[p] \in {"live", "deleted"}

ProductFound(p) == status[p] = "live"

Idle(s) == req[s].pc = "idle"

\* a new request takes the lowest free slot (slots are interchangeable)
CanCall(s) ==
    /\ Idle(s)
    /\ calls < MaxCalls
    /\ \A t \in Slots : t < s => ~Idle(t)

\* the request of slot s completes with result r (returned value or thrown error)
Complete(s, r) ==
    /\ req' = [req EXCEPT ![s] = IdleReq]
    /\ last' = [req[s] EXCEPT !.pc = "done", !.result = r]

\* a request that completes within its first step
CompleteNew(s, r0, r) ==
    /\ req' = req
    /\ last' = [r0 EXCEPT !.pc = "done", !.result = r]
    /\ calls' = calls + 1

Suspend(s, r0, pc) ==
    /\ req' = [req EXCEPT ![s] = [r0 EXCEPT !.pc = pc]]
    /\ calls' = calls + 1
    /\ UNCHANGED last

(***************************************************************************)
(* Catalog: addProduct, removeProduct, addStock, removeStock               *)
(***************************************************************************)

\* resolvers.ts 171-184: Product.create({...productData}) under a fresh _id
addProduct(s, caller, p, qty) ==
    /\ CanCall(s)
    /\ LET r0 == NewReq("addProduct", caller, p, qty, "", 0) IN
       IF caller = NoUser
       THEN /\ CompleteNew(s, r0, "FORBIDDEN")
            /\ UNCHANGED <<dbVars, ledger, clock>>
       ELSE /\ status[p] = "absent"
            /\ status' = [status EXCEPT ![p] = "live"]
            /\ stock' = [stock EXCEPT ![p] = qty]
            /\ reviews' = [reviews EXCEPT ![p] = <<>>]
            /\ ledger' = [ledger EXCEPT ![p] = NewLedger(qty)]
            /\ CompleteNew(s, r0, "OK")
            /\ UNCHANGED <<basket, shopVars, clock>>

\* resolvers.ts 186-196: Product.findByIdAndDelete(productId); null when absent
removeProduct(s, caller, p) ==
    /\ CanCall(s)
    /\ LET r0 == NewReq("removeProduct", caller, p, 0, "", 0) IN
       IF caller = NoUser
       THEN /\ CompleteNew(s, r0, "FORBIDDEN")
            /\ UNCHANGED <<dbVars, ledger, clock>>
       ELSE /\ status' = [status EXCEPT ![p] = IF ProductFound(p) THEN "deleted" ELSE @]
            /\ CompleteNew(s, r0, "OK")
            /\ UNCHANGED <<stock, reviews, basket, shopVars, ledger, clock>>

\* resolvers.ts 203-211 and 224-232: the guard and `await Product.findById`
StockFindById(s, op, caller, p, qty) ==
    /\ CanCall(s)
    /\ LET r0 == NewReq(op, caller, p, qty, "", 0) IN
       IF caller = NoUser
       THEN CompleteNew(s, r0, "FORBIDDEN")
       ELSE IF ~ProductFound(p)
       THEN CompleteNew(s, r0, "NOT_FOUND")
       ELSE Suspend(s, [r0 EXCEPT !.prod = ProductFindById(p)], "loaded")
    /\ UNCHANGED <<dbVars, ledger, clock>>

addStock_findById(s, caller, p, qty) == StockFindById(s, "addStock", caller, p, qty)

removeStock_findById(s, caller, p, qty) == StockFindById(s, "removeStock", caller, p, qty)

\* save() of a document none of whose paths was modified sends no update.  On a
\* document that has been deleted meanwhile the outcome depends on the mongoose
\* release: it returns, or it checks that the document exists and fails
\* (DocumentNotFoundError)
EmptySaveOutcomes(found) == IF found THEN {"OK"} ELSE {"OK", "ERROR"}

\* product.save(): with `stock` modified, $set {stock: v} on the document, which
\* fails (DocumentNotFoundError) when the document has been deleted meanwhile;
\* with the loaded value unchanged, the empty save above
SaveStock(s, v, delta) ==
    LET p == req[s].p IN
    IF v = req[s].prod.stock
    THEN /\ UNCHANGED stock
         /\ \E r \in EmptySaveOutcomes(ProductFound(p)) :
               /\ Complete(s, r)
               /\ ledger' = IF r = "OK" THEN [ledger EXCEPT ![p] = delta] ELSE ledger
    ELSE IF ProductFound(p)
    THEN /\ stock' = [stock EXCEPT ![p] = v]
         /\ ledger' = [ledger EXCEPT ![p] = delta]
         /\ Complete(s, "OK")
    ELSE /\ UNCHANGED <<stock, ledger>>
         /\ Complete(s, "ERROR")

\* resolvers.ts 212-214: product.stock += quantity; await product.save()
addStock_save(s) ==
    /\ req[s].op = "addStock" /\ req[s].pc = "loaded"
    /\ SaveStock(s, req[s].prod.stock + req[s].qty,
                 [ledger[req[s].p] EXCEPT !.adds = @ + 1])
    /\ UNCHANGED <<status, reviews, basket, shopVars, calls, clock>>

\* the check off by one: a removal of one unit more than the stock passes
SufficientStockOffByOne(have, want) == have + 1 >= want

\* resolvers.ts 233: if (product.stock >= quantity)
SufficientStock(have, want) == have >= want

\* resolvers.ts 233-243: the check on the loaded copy, then save or throw
removeStock_save(s) ==
    /\ req[s].op = "removeStock" /\ req[s].pc = "loaded"
    /\ IF SufficientStock(req[s].prod.stock, req[s].qty)
       THEN SaveStock(s, req[s].prod.stock - req[s].qty,
                      [ledger[req[s].p] EXCEPT !.removed = @ + req[s].qty,
                                                !.nonpos = @ \/ req[s].qty < 1])
       ELSE /\ Complete(s, "BAD_REQUEST")
            /\ UNCHANGED <<stock, ledger>>
    /\ UNCHANGED <<status, reviews, basket, shopVars, calls, clock>>

(***************************************************************************)
(* Reviews: addReview, editReview                                          *)
(***************************************************************************)
ReviewInputs == {[body |-> "good", rating |-> 5], [body |-> "bad", rating |-> 1]}
ArgReviews(c) == IF c = NoUser THEN {[body |-> "good", rating |-> 5]} ELSE ReviewInputs

\* resolvers.ts 327 and 380: item.username === context.user.username
SameUsername(item, username) == item.username = username

\* a scan that settles for the first review when none matches
FirstReviewOrHead(list, username) ==
    LET hits == {i \in 1 .. Len(list) : SameUsername(list[i], username)} IN
    IF hits = {} THEN (IF list = <<>> THEN 0 ELSE 1)
    ELSE CHOOSE i \in hits : \A j \in hits : i <= j

\* a scan that leaves the loop after its first iteration
FirstReviewHeadOnly(list, username) ==
    IF Len(list) > 0 /\ SameUsername(list[1], username) THEN 1 ELSE 0

\* resolvers.ts 325-334 and 378-386: for (const item of product.reviews) with the
\* test above; the position of the first match, 0 when the loop ends without one
FirstReviewBy(list, username) ==
    LET hits == {i \in 1 .. Len(list) : SameUsername(list[i], username)} IN
    IF hits = {} THEN 0 ELSE CHOOSE i \in hits : \A j \in hits : i <= j

\* resolvers.ts 315-334: the guard, `await Product.findById`, and the scan that
\* throws when the caller has already reviewed the product
addReview_findById(s, caller, p, body, rating) ==
    /\ CanCall(s)
    /\ LET r0 == NewReq("addReview", caller, p, 0, body, rating) IN
       IF caller = NoUser
       THEN CompleteNew(s, r0, "FORBIDDEN")
       ELSE IF ~ProductFound(p)
       THEN CompleteNew(s, r0, "NOT_FOUND")
       ELSE LET r1 == [r0 EXCEPT !.prod = ProductFindById(p)] IN
            IF FirstReviewBy(r1.prod.reviews, caller) # 0
            THEN CompleteNew(s, r1, "FORBIDDEN")
            ELSE Suspend(s, r1, "checked")
    /\ UNCHANGED <<dbVars, ledger, clock>>

\* resolvers.ts 340-346: $push: { reviews: {...} }
PushReview(list, item) == Append(list, item)

\* resolvers.ts 337-350: await Product.findByIdAndUpdate(productId, {$push: ...});
\* it updates nothing when the product has been deleted meanwhile, and the
\* resolver returns the copy it loaded either way
addReview_push(s) ==
    /\ req[s].op = "addReview" /\ req[s].pc = "checked"
    /\ LET p == req[s].p
           item == [username |-> req[s].caller, review |-> req[s].body,
                    rating |-> req[s].rating] IN
       reviews' = [reviews EXCEPT ![p] = IF ProductFound(p) THEN PushReview(@, item) ELSE @]
    /\ Complete(s, "OK")
    /\ UNCHANGED <<status, stock, basket, shopVars, calls, ledger, clock>>

\* resolvers.ts 368-388: the guard, `await Product.findById`, and the scan; when
\* the loop ends without a match the resolver falls through to the final throw
editReview_findById(s, caller, p, body, rating) ==
    /\ CanCall(s)
    /\ LET r0 == NewReq("editReview", caller, p, 0, body, rating) IN
       IF caller = NoUser
       THEN CompleteNew(s, r0, "FORBIDDEN")
       ELSE IF ~ProductFound(p)
       THEN CompleteNew(s, r0, "NOT_FOUND")
       ELSE LET r1 == [r0 EXCEPT !.prod = ProductFindById(p)]
                i == FirstReviewBy(r1.prod.reviews, caller) IN
            IF i = 0
            THEN CompleteNew(s, r1, "FORBIDDEN")
            ELSE Suspend(s, [r1 EXCEPT !.idx = i], "edited")
    /\ UNCHANGED <<dbVars, ledger, clock>>

\* an edit that overwrites the body and leaves the rating
SetReviewBodyOnly(list, i, old, body, rating) ==
    [list EXCEPT ![i] = [@ EXCEPT !.review = body]]

\* resolvers.ts 381-383: item.review = review; item.rating = rating; save() sends
\* $set for those of reviews.<i>.review and reviews.<i>.rating whose value
\* differs from the loaded one (old), and leaves the other as it is stored
SetReview(list, i, old, body, rating) ==
    [list EXCEPT ![i] = [@ EXCEPT !.review = IF body = old.review THEN @ ELSE body,
                                  !.rating = IF rating = old.rating THEN @ ELSE rating]]

\* resolvers.ts 381-384: the assignments and `await product.save()`: the empty
\* save when no path changed; otherwise the update, which fails
\* (DocumentNotFoundError) when the product has been deleted meanwhile.  Reviews are only ever appended, so
\* position idx still holds the review that was loaded there.
editReview_save(s) ==
    /\ req[s].op = "editReview" /\ req[s].pc = "edited"
    /\ LET p == req[s].p
           i == req[s].idx
           old == req[s].prod.reviews[i] IN
       IF old.review = req[s].body /\ old.rating = req[s].rating
       THEN /\ UNCHANGED reviews
            /\ \E r \in EmptySaveOutcomes(ProductFound(p)) : Complete(s, r)
       ELSE IF ProductFound(p)
       THEN /\ reviews' = [reviews EXCEPT ![p] = SetReview(@, i, old, req[s].body, req[s].rating)]
            /\ Complete(s, "OK")
       ELSE /\ UNCHANGED reviews
            /\ Complete(s, "ERROR")
    /\ UNCHANGED <<status, stock, basket, shopVars, calls, ledger, clock>>

(***************************************************************************)
(* Users: addUser, login.  Neither asks for an identity.  No resolver      *)
(* deletes a user, so the document of a caller with an identity exists;    *)
(* the resolvers' `if (user)` tests are modelled all the same.             *)
(***************************************************************************)
\* User.findById(context.user._id) / User.findOne({email}): null when absent
UserFound(u) == u \in Users /\ account[u] = "live"

\* resolvers.ts 143-151: User.create(args) under a fresh _id, with an empty
\* basket and no orders
addUser(s, u) ==
    /\ CanCall(s)
    /\ account[u] = "absent"
    /\ account' = [account EXCEPT ![u] = "live"]
    /\ basket' = [basket EXCEPT ![u] = <<>>]
    /\ orders' = [orders EXCEPT ![u] = <<>>]
    /\ CompleteNew(s, [NewReq("addUser", NoUser, NoProduct, 0, "", 0) EXCEPT !.who = u], "OK")
    /\ UNCHANGED <<status, stock, reviews, pricing, category, ledger, clock>>

\* the passwords a login is tried with; each user's password is Secret
Secret == "secret"
Passwords == {Secret, "guess"}

\* user.isCorrectPassword(password): compares with the loaded document
IsCorrectPassword(password) == password = Secret

\* resolvers.ts 157-166: `await User.findOne({ email })`; without a document
\* `!user ||` ends the request here, with one the password is compared next
login_findOne(s, u, password) ==
    /\ CanCall(s)
    /\ LET r0 == [NewReq("login", NoUser, NoProduct, 0, "", 0)
                    EXCEPT !.who = u, !.password = password] IN
       IF UserFound(u)
       THEN Suspend(s, r0, "user")
       ELSE CompleteNew(s, r0, "FORBIDDEN")
    /\ UNCHANGED <<dbVars, ledger, clock>>

\* resolvers.ts 159-169: `await user.isCorrectPassword(password)`, then the
\* error or the token; changes nothing
login_isCorrectPassword(s) ==
    /\ req[s].op = "login" /\ req[s].pc = "user"
    /\ Complete(s, IF IsCorrectPassword(req[s].password) THEN "OK" ELSE "FORBIDDEN")
    /\ UNCHANGED <<dbVars, calls, ledger, clock>>

(***************************************************************************)
(* Basket: addBasketItem, removeBasketItem, decrementBasketItem,           *)
(* clearBasket                                                             *)
(***************************************************************************)
Line(p, q) == [product |-> p, quantity |-> q]

\* an array element that is a subdocument with a product reference
IsItem(line) == line.product \in Products

\* resolvers.ts 410, 451, 480: item.product.toString() === productId
SameProduct(line, p) == line.product = p

\* resolvers.ts 409-415, 450-456, 479-490: for (const item of user.basket) with
\* the test above: the position of the first match, 0 when the loop ends
\* without one, -1 when it meets an element without a product reference
\* before a match (item.product.toString() throws a TypeError)
RECURSIVE ScanFrom(_, _, _)
ScanFrom(list, p, i) ==
    IF i > Len(list) THEN 0
    ELSE IF ~IsItem(list[i]) THEN -1
    ELSE IF SameProduct(list[i], p) THEN i
    ELSE ScanFrom(list, p, i + 1)

FirstLineOf(list, p) == ScanFrom(list, p, 1)

\* resolvers.ts 396-404, 437-445, 468-476: the guard and `await Product.findById`
BasketFindProduct(s, op, caller, p, qty) ==
    /\ CanCall(s)
    /\ LET r0 == NewReq(op, caller, p, qty, "", 0) IN
       IF caller = NoUser
       THEN CompleteNew(s, r0, "FORBIDDEN")
       ELSE IF ~ProductFound(p)
       THEN CompleteNew(s, r0, "NOT_FOUND")
       ELSE Suspend(s, r0, "product")
    /\ UNCHANGED <<dbVars, ledger, clock>>

addBasketItem_findProduct(s, caller, p, qty) ==
    BasketFindProduct(s, "addBasketItem", caller, p, qty)

removeBasketItem_findProduct(s, caller, p) ==
    BasketFindProduct(s, "removeBasketItem", caller, p, 0)

decrementBasketItem_findProduct(s, caller, p) ==
    BasketFindProduct(s, "decrementBasketItem", caller, p, 0)

\* the basket of the document User.findById returned; `if (user)` skips the
\* scan of a null user
LoadedBasket(u) == IF UserFound(u) THEN basket[u] ELSE <<>>

\* resolvers.ts 406-415 and 429: `await User.findById` and the scan of the
\* loaded basket; without a document the resolver falls through to the final
\* throw
addBasketItem_findUser(s) ==
    /\ req[s].op = "addBasketItem" /\ req[s].pc = "product"
    /\ LET usr == LoadedBasket(req[s].caller)
           i == FirstLineOf(usr, req[s].p) IN
       IF ~UserFound(req[s].caller)
       THEN Complete(s, "FORBIDDEN")
       ELSE IF i = -1
       THEN Complete(s, "ERROR")
       ELSE /\ req' = [req EXCEPT ![s] = [@ EXCEPT !.pc = "user", !.usr = usr, !.idx = i]]
            /\ UNCHANGED last
    /\ UNCHANGED <<dbVars, calls, ledger, clock>>

\* resolvers.ts 447-460 and 477-493: `await User.findById` and the scan; when the
\* loop ends without a match the resolver falls through to the final throw
RemovalFindUser(s, op) ==
    /\ req[s].op = op /\ req[s].pc = "product"
    /\ LET usr == LoadedBasket(req[s].caller)
           i == FirstLineOf(usr, req[s].p) IN
       IF i = -1
       THEN Complete(s, "ERROR")
       ELSE IF i = 0
       THEN Complete(s, "FORBIDDEN")
       ELSE /\ req' = [req EXCEPT ![s] = [@ EXCEPT !.pc = "user", !.usr = usr, !.idx = i]]
            /\ UNCHANGED last
    /\ UNCHANGED <<dbVars, calls, ledger, clock>>

removeBasketItem_findUser(s) == RemovalFindUser(s, "removeBasketItem")

decrementBasketItem_findUser(s) == RemovalFindUser(s, "decrementBasketItem")

RECURSIVE Nulls(_)
Nulls(n) == IF n <= 0 THEN <<>> ELSE <<Line(NullElem, 0)>> \o Nulls(n - 1)

\* user.save() with `basket.<i>.quantity` modified: $set {"basket.<i>.quantity": v}.
\* The store sets the field of whatever element is at position i now; when the
\* array has become shorter it pads it with nulls and creates the element;
\* it rejects the update when the element at i is null.
SetQuantityAt(list, i, v) ==
    IF i <= Len(list)
    THEN IF list[i].product = NullElem THEN list
         ELSE [list EXCEPT ![i] = [@ EXCEPT !.quantity = v]]
    ELSE list \o Nulls(i - Len(list) - 1) \o <<Line(NoProduct, v)>>

SaveRejected(list, i) == i <= Len(list) /\ list[i].product = NullElem

\* user.save(): sends nothing when the quantity did not change
SaveQuantity(s, v) ==
    LET u == req[s].caller
        i == req[s].idx IN
    IF v = req[s].usr[i].quantity
    THEN /\ UNCHANGED basket
         /\ Complete(s, "OK")
    ELSE IF SaveRejected(basket[u], i)
    THEN /\ UNCHANGED basket
         /\ Complete(s, "ERROR")
    ELSE /\ basket' = [basket EXCEPT ![u] = SetQuantityAt(@, i, v)]
         /\ Complete(s, "OK")

\* resolvers.ts 418-426: $push: { basket: { product, quantity } }
PushLine(list, p, q) == Append(list, Line(p, q))

\* User.findByIdAndUpdate(_id, update): updates nothing and returns null when
\* no document has the _id
UpdateBasket(u, new) == basket' = [basket EXCEPT ![u] = IF UserFound(u) THEN new ELSE @]

\* an increment that overwrites the quantity of the line
SumQuantityOverwrite(have, q) == q

\* resolvers.ts 411: item.quantity += quantity
SumQuantity(have, q) == have + q

\* resolvers.ts 411-413 and 418-426: save the incremented line, or push a new one
addBasketItem_write(s) ==
    /\ req[s].op = "addBasketItem" /\ req[s].pc = "user"
    /\ IF req[s].idx > 0
       THEN SaveQuantity(s, SumQuantity(req[s].usr[req[s].idx].quantity, req[s].qty))
       ELSE /\ UpdateBasket(req[s].caller,
                             PushLine(basket[req[s].caller], req[s].p, req[s].qty))
            /\ Complete(s, "OK")
    /\ UNCHANGED <<status, stock, reviews, shopVars, calls, ledger, clock>>

\* $pull: { basket: { product: productId } }: removes every element that matches
PullProduct(list, p) == SelectSeq(list, LAMBDA line : line.product # p)

\* resolvers.ts 452-454: await User.findByIdAndUpdate(_id, {$pull: ...})
removeBasketItem_pull(s) ==
    /\ req[s].op = "removeBasketItem" /\ req[s].pc = "user"
    /\ UpdateBasket(req[s].caller, PullProduct(basket[req[s].caller], req[s].p))
    /\ Complete(s, "OK")
    /\ UNCHANGED <<status, stock, reviews, shopVars, calls, ledger, clock>>

\* a test that keeps a line of quantity 1 and decrements it
MoreThanOneOrOne(q) == q >= 1

\* resolvers.ts 481: if (item.quantity > 1)
MoreThanOne(q) == q > 1

\* resolvers.ts 481-488: save the decremented line, or pull the line
decrementBasketItem_write(s) ==
    /\ req[s].op = "decrementBasketItem" /\ req[s].pc = "user"
    /\ IF MoreThanOne(req[s].usr[req[s].idx].quantity)
       THEN SaveQuantity(s, req[s].usr[req[s].idx].quantity - 1)
       ELSE /\ UpdateBasket(req[s].caller, PullProduct(basket[req[s].caller], req[s].p))
            /\ Complete(s, "OK")
    /\ UNCHANGED <<status, stock, reviews, shopVars, calls, ledger, clock>>

\* an update that replaces the user document by { basket: [] }
clearBasketReplacingUser(s, caller) ==
    /\ CanCall(s)
    /\ caller # NoUser
    /\ basket' = [basket EXCEPT ![caller] = <<>>]
    /\ orders' = [orders EXCEPT ![caller] = <<>>]
    /\ CompleteNew(s, NewReq("clearBasket", caller, NoProduct, 0, "", 0), "OK")
    /\ UNCHANGED <<status, stock, reviews, pricing, category, account, ledger, clock>>

\* resolvers.ts 496-501: User.findByIdAndUpdate(_id, { basket: [] })
clearBasket(s, caller) ==
    /\ CanCall(s)
    /\ LET r0 == NewReq("clearBasket", caller, NoProduct, 0, "", 0) IN
       IF caller = NoUser
       THEN /\ CompleteNew(s, r0, "FORBIDDEN")
            /\ UNCHANGED basket
       ELSE /\ UpdateBasket(caller, <<>>)
            /\ CompleteNew(s, r0, "OK")
    /\ UNCHANGED <<status, stock, reviews, shopVars, ledger, clock>>

(***************************************************************************)
(* Categories                                                              *)
(***************************************************************************)

CategoryFound(c) == category[c].status = "live"

\* resolvers.ts 248-258: Category.create({...categoryData}) under a fresh _id
addCategory(s, caller, c) ==
    /\ CanCall(s)
    /\ LET r0 == [NewReq("addCategory", caller, NoProduct, 0, "", 0) EXCEPT !.cat = c] IN
       IF caller = NoUser
       THEN /\ CompleteNew(s, r0, "FORBIDDEN")
            /\ UNCHANGED category
       ELSE /\ category[c].status = "absent"
            /\ category' = [category EXCEPT ![c] = [status |-> "live", products |-> <<>>]]
            /\ CompleteNew(s, r0, "OK")
    /\ UNCHANGED <<status, stock, reviews, basket, orders, pricing, account, ledger, clock>>

\* resolvers.ts 260-270: Category.findByIdAndDelete(categoryId); null when absent
removeCategory(s, caller, c) ==
    /\ CanCall(s)
    /\ LET r0 == [NewReq("removeCategory", caller, NoProduct, 0, "", 0) EXCEPT !.cat = c] IN
       IF caller = NoUser
       THEN /\ CompleteNew(s, r0, "FORBIDDEN")
            /\ UNCHANGED category
       ELSE /\ category' = [category EXCEPT ![c].status = IF CategoryFound(c) THEN "deleted" ELSE @]
            /\ CompleteNew(s, r0, "OK")
    /\ UNCHANGED <<status, stock, reviews, basket, orders, pricing, account, ledger, clock>>

\* resolvers.ts 277-285: the guard and `await Category.findById`
addProductToCategory_findCategory(s, caller, p, c) ==
    /\ CanCall(s)
    /\ LET r0 == [NewReq("addProductToCategory", caller, p, 0, "", 0) EXCEPT !.cat = c] IN
       IF caller = NoUser
       THEN CompleteNew(s, r0, "FORBIDDEN")
       ELSE IF ~CategoryFound(c)
            THEN CompleteNew(s, r0, "NOT_FOUND")
            ELSE Suspend(s, r0, "category")
    /\ UNCHANGED <<dbVars, ledger, clock>>

\* resolvers.ts 287-293: `await Product.findById`
addProductToCategory_findProduct(s) ==
    /\ req[s].op = "addProductToCategory"
    /\ req[s].pc = "category"
    /\ IF ~ProductFound(req[s].p)
       THEN Complete(s, "NOT_FOUND")
       ELSE /\ req' = [req EXCEPT ![s].pc = "product"]
            /\ UNCHANGED last
    /\ UNCHANGED <<dbVars, calls, ledger, clock>>

\* resolvers.ts 295-301: Category.findByIdAndUpdate(categoryId, {$push: {products}});
\* an update that matches no document changes nothing
addProductToCategory_push(s) ==
    /\ req[s].op = "addProductToCategory"
    /\ req[s].pc = "product"
    /\ category' = [category EXCEPT ![req[s].cat].products =
                        IF CategoryFound(req[s].cat) THEN Append(@, req[s].p) ELSE @]
    /\ Complete(s, "OK")
    /\ UNCHANGED <<status, stock, reviews, basket, orders, pricing, account, calls, ledger, clock>>

(***************************************************************************)
(* Checkout.  The payment collaborator (Stripe) may accept or refuse any   *)
(* call.                                                                   *)
(***************************************************************************)

\* context.headers: the Referer header of the request, "" when the request has
\* none, NoHeaders when the context carries no headers object
NoHeaders == "noheaders"
AbsoluteUrls == {"http://shop.example/cart"}
HeaderInputs == AbsoluteUrls \cup {"/cart", "", NoHeaders}
ArgHeaders == {"http://shop.example/cart", ""}

\* resolvers.ts 72-74: if (context.headers) url = new URL(context.headers.referer
\* || "").origin; new URL throws a TypeError on anything but an absolute URL
UrlThrows(referer) == referer # NoHeaders /\ referer \notin AbsoluteUrls

ItemLists == {<<"p2">>, <<"p1", "p1", "p2">>}
ArgItems(c) == IF c = NoUser THEN {<<"p2">>} ELSE ItemLists
\* the order in which Product.find returns the documents
ProductOrder == <<"p1", "p2">>

Ids(items) == {items[i] : i \in 1..Len(items)}

\* resolvers.ts 93-96: productQuantities[productId] = (productQuantities[productId] || 0) + 1
Manifest(items) ==
    [p \in Ids(items) |-> Cardinality({i \in 1..Len(items) : items[i] = p})]

\* resolvers.ts 80-83
Order(r) == [products |-> r.items, purchaseDate |-> r.stamp]

\* new Date(): the reading of the clock, which is still the reading an
\* earlier request got when this one arrives within the same millisecond
Dates == {clock, clock + 1}

\* resolvers.ts 70-86: the redirect origin, the identity test, the order record
\* and `await User.findById`
checkout_findUser(s, caller, referer, items) ==
    /\ CanCall(s)
    /\ \E date \in Dates :
         LET r0 == [NewReq("checkout", caller, NoProduct, 0, "", 0)
                      EXCEPT !.referer = referer, !.items = items, !.stamp = date] IN
         /\ clock' = date
         /\ IF UrlThrows(referer)
            THEN CompleteNew(s, r0, "ERROR")
            ELSE IF caller = NoUser
            THEN CompleteNew(s, r0, "UNAUTHENTICATED")
            ELSE Suspend(s, [r0 EXCEPT !.ords = IF UserFound(caller) THEN orders[caller]
                                                 ELSE <<>>], "user")
    /\ UNCHANGED <<dbVars, ledger>>

\* a save that sends nothing
PushOrderDropped(stored, loaded, order) == stored

\* user.orders.push(order) followed by save(): the array push is sent as an
\* atomic $push of the new element onto the stored array
PushOrder(stored, loaded, order) == Append(stored, order)

\* resolvers.ts 87-90: if (user) { user.orders.push(order); await user.save() }
checkout_save(s) ==
    /\ req[s].op = "checkout"
    /\ req[s].pc = "user"
    /\ orders' = [orders EXCEPT ![req[s].caller] =
                      IF UserFound(req[s].caller)
                      THEN PushOrder(@, req[s].ords, Order(req[s])) ELSE @]
    /\ req' = [req EXCEPT ![s].pc = "saved"]
    /\ UNCHANGED <<status, stock, reviews, basket, pricing, category, account, last, calls, ledger, clock>>

\* Product.find({_id: {$in: ids}}): the documents that exist, nothing for the others
FindProducts(ids) == SelectSeq(ProductOrder, LAMBDA p : p \in ids /\ ProductFound(p))

\* resolvers.ts 92-103: the manifest and `await Product.find`; the loop over the
\* products found is skipped when there are none
checkout_find(s) ==
    /\ req[s].op = "checkout"
    /\ req[s].pc = "saved"
    /\ LET products == FindProducts(DOMAIN Manifest(req[s].items)) IN
       req' = [req EXCEPT ![s].found = products,
                          ![s].pc = IF products = <<>> THEN "session" ELSE "pricing"]
    /\ UNCHANGED <<dbVars, last, calls, ledger, clock>>

\* JavaScript truthiness of a number field
Truthy(x) == x # Undefined /\ x # 0

\* resolvers.ts 107
FinalPrice(doc) == IF doc.onSale /\ Truthy(doc.salePrice) THEN doc.salePrice ELSE doc.price

\* the exponent of the binary floating point number nearest to num / den:
\* the largest e with 2^e <= num / den
RECURSIVE ExponentUp(_, _)
ExponentUp(num, den) == IF 2 * den <= num THEN 1 + ExponentUp(num, 2 * den) ELSE 0
RECURSIVE ExponentDown(_, _)
ExponentDown(num, den) == IF num >= den THEN 0 ELSE 1 + ExponentDown(2 * num, den)
Exponent(num, den) == IF num >= den THEN ExponentUp(num, den) ELSE 0 - ExponentDown(num, den)

RECURSIVE Pow2Mod(_, _)
Pow2Mod(n, m) == IF n = 0 THEN 1 % m ELSE (2 * Pow2Mod(n - 1, m)) % m

\* the price (thousandths t) is stored as the double d nearest to t / 1000, a
\* multiple of 2^-bits; Remainder is the part of t / 1000 that the 53 bit
\* significand cuts off (below 500) or fills up (from 500), in thousandths of
\* the last bit
SignificandBits(t) == 52 - Exponent(t, 1000)
Remainder(t) == ((t % 1000) * Pow2Mod(SignificandBits(t), 1000)) % 1000

\* finalPrice * 100 for a price of k hundredths and a half: the product of d
\* and 100, rounded to a double, is below k + 0.5 exactly when d was cut off by
\* more than half a last bit of the product (that bit is 64 or 128 last bits
\* of d; a tie goes to k + 0.5, whose significand is even)
HalfRoundsDown(t) ==
    /\ Exponent(2 * (t \div 10) + 1, 2) - Exponent(t, 1000) = 6
    /\ Remainder(t) > 320 /\ Remainder(t) < 500

\* resolvers.ts 118: Math.round(finalPrice * 100) in double arithmetic, the
\* price given in thousandths: off a half the nearest hundredth; Math.round
\* takes a product of exactly k + 0.5 upwards
UnitAmount(finalPrice) ==
    LET k == finalPrice \div 10
        f == finalPrice % 10 IN
    IF f < 5 THEN k
    ELSE IF f > 5 THEN k + 1
    ELSE IF HalfRoundsDown(finalPrice) THEN k ELSE k + 1

\* resolvers.ts 104-114: the head of a pass of the loop and `await
\* stripe.products.create`; a refused call ends the request
checkout_product(s, accepted) ==
    /\ req[s].op = "checkout"
    /\ req[s].pc = "pricing"
    /\ IF ~accepted
       THEN Complete(s, "ERROR")
       ELSE /\ req' = [req EXCEPT ![s].pc = "price"]
            /\ UNCHANGED last
    /\ UNCHANGED <<dbVars, calls, ledger, clock>>

\* resolvers.ts 116-124: `await stripe.prices.create` with the unit amount
\* computed from the document Product.find returned, and line_items.push; a
\* refused call ends the request
checkout_price(s, accepted) ==
    /\ req[s].op = "checkout"
    /\ req[s].pc = "price"
    /\ LET product == req[s].found[Len(req[s].lines) + 1]
           item == [product |-> product,
                    unit_amount |-> UnitAmount(FinalPrice(pricing[product])),
                    quantity |-> Manifest(req[s].items)[product]]
           lines == Append(req[s].lines, item) IN
       IF ~accepted
       THEN Complete(s, "ERROR")
       ELSE /\ req' = [req EXCEPT ![s].lines = lines,
                                  ![s].pc = IF Len(lines) = Len(req[s].found)
                                            THEN "session" ELSE "pricing"]
            /\ UNCHANGED last
    /\ UNCHANGED <<dbVars, calls, ledger, clock>>

\* resolvers.ts 127-138: stripe.checkout.sessions.create({line_items, ...}) and
\* the session id returned
checkout_session(s, accepted) ==
    /\ req[s].op = "checkout"
    /\ req[s].pc = "session"
    /\ Complete(s, IF accepted THEN "OK" ELSE "ERROR")
    /\ UNCHANGED <<dbVars, calls, ledger, clock>>

(***************************************************************************)
(* Initial states and the catalog specification                            *)
(***************************************************************************)
InitRequests ==
    /\ req = [s \in Slots |-> IdleReq]
    /\ last = IdleReq
    /\ calls = 0
    /\ clock = 0

\* the collections a specification does not vary
InitShop ==
    /\ orders = [u \in Users |-> <<>>]
    /\ pricing = [p \in Products |-> Pricing(1995, FALSE, Undefined)]
    /\ category = [c \in Categories |-> [status |-> "live", products |-> <<>>]]
    /\ account = [u \in Users |-> "live"]

InitStock ==
    /\ status = [p \in Products |-> "live"]
    /\ stock \in [Products -> 0 .. MaxStock]
    /\ \A p \in Products : status[p] = "absent" => stock[p] = 0
    /\ reviews = [p \in Products |-> <<>>]
    /\ basket = [u \in Users |-> <<>>]
    /\ ledger = [p \in Products |-> NewLedger(stock[p])]
    /\ InitShop
    /\ InitRequests

NextStock ==
    \E s \in Slots :
        \/ \E c \in CatalogCallers : \E p \in ArgProducts(c) : removeProduct(s, c, p)
        \/ \E c \in CatalogCallers : \E p \in ArgProducts(c), q \in ArgQtys(c) :
               addStock_findById(s, c, p, q)
        \/ addStock_save(s)
        \/ \E c \in CatalogCallers : \E p \in ArgProducts(c), q \in ArgQtys(c) :
               removeStock_findById(s, c, p, q)
        \/ removeStock_save(s)

SpecStock == InitStock /\ [][NextStock]_vars

(***************************************************************************)
(* The review specifications: concurrent requests, and one request at a    *)
(* time                                                                    *)
(***************************************************************************)
InitReviews ==
    /\ status = [p \in Products |-> "live"]
    /\ stock = [p \in Products |-> 0]
    /\ reviews \in [Products -> {<<>>, <<[username |-> "u2", review |-> "good", rating |-> 5]>>}]
    /\ basket = [u \in Users |-> <<>>]
    /\ ledger = [p \in Products |-> NewLedger(stock[p])]
    /\ InitShop
    /\ InitRequests

ReviewStep(s) ==
    \/ \E c \in CatalogCallers : \E p \in ArgProducts(c) : removeProduct(s, c, p)
    \/ \E c \in Callers : \E p \in ArgProducts(c), r \in ArgReviews(c) :
           addReview_findById(s, c, p, r.body, r.rating)
    \/ addReview_push(s)
    \/ \E c \in Callers : \E p \in ArgProducts(c), r \in ArgReviews(c) :
           editReview_findById(s, c, p, r.body, r.rating)
    \/ editReview_save(s)

NextReviews == \E s \in Slots : ReviewStep(s)

SpecReviews == InitReviews /\ [][NextReviews]_vars

\* one request at a time: every request runs to completion before the next starts
NextReviewsSeq == ReviewStep(1)

SpecReviewsSeq == InitReviews /\ [][NextReviewsSeq]_vars

(***************************************************************************)
(* The basket specifications: concurrent requests, and one request at a    *)
(* time                                                                    *)
(***************************************************************************)
InitBaskets ==
    /\ status = [p \in Products |-> "live"]
    /\ stock = [p \in Products |-> 0]
    /\ reviews = [p \in Products |-> <<>>]
    /\ basket \in [Users -> {<<>>, <<Line("p1", 2)>>}]
    /\ ledger = [p \in Products |-> NewLedger(stock[p])]
    /\ InitShop
    /\ InitRequests

BasketStep(s) ==
    \/ \E c \in CatalogCallers : \E p \in ArgProducts(c) : removeProduct(s, c, p)
    \/ \E c \in Callers : \E p \in ArgProducts(c), q \in ArgQtys(c) :
           addBasketItem_findProduct(s, c, p, q)
    \/ addBasketItem_findUser(s)
    \/ addBasketItem_write(s)
    \/ \E c \in Callers : \E p \in ArgProducts(c) : removeBasketItem_findProduct(s, c, p)
    \/ removeBasketItem_findUser(s)
    \/ removeBasketItem_pull(s)
    \/ \E c \in Callers : \E p \in ArgProducts(c) : decrementBasketItem_findProduct(s, c, p)
    \/ decrementBasketItem_findUser(s)
    \/ decrementBasketItem_write(s)
    \/ \E c \in Callers : clearBasket(s, c)

NextBaskets == \E s \in Slots : BasketStep(s)

SpecBaskets == InitBaskets /\ [][NextBaskets]_vars

\* one request at a time: every request runs to completion before the next starts
NextBasketsSeq == BasketStep(1)

SpecBasketsSeq == InitBaskets /\ [][NextBasketsSeq]_vars

\* a catalogue with every shape of price record, and one basket to clear
PricingInputs ==
    {Pricing(1995, FALSE, Undefined), Pricing(1995, FALSE, 1494),
     Pricing(1995, TRUE, 1005), Pricing(1995, TRUE, 0)}

InitCheckoutSeq ==
    /\ status = [p \in Products |-> "live"]
    /\ stock = [p \in Products |-> 0]
    /\ reviews = [p \in Products |-> <<>>]
    /\ basket = [u \in Users |-> IF u = "u1" THEN <<Line("p1", 2)>> ELSE <<Line("p2", 1)>>]
    /\ ledger = [p \in Products |-> NewLedger(stock[p])]
    /\ orders = [u \in Users |-> <<>>]
    /\ pricing \in [Products -> PricingInputs]
    /\ category = [c \in Categories |-> [status |-> "live", products |-> <<>>]]
    /\ account = [u \in Users |-> "live"]
    /\ InitRequests

CheckoutStep(s, callers, headers) ==
    \/ \E c \in callers : \E h \in headers, items \in ArgItems(c) :
           checkout_findUser(s, c, h, items)
    \/ checkout_save(s)
    \/ checkout_find(s)
    \/ \E accepted \in BOOLEAN : checkout_product(s, accepted)
    \/ \E accepted \in BOOLEAN : checkout_price(s, accepted)
    \/ \E accepted \in BOOLEAN : checkout_session(s, accepted)
    \/ \E c \in callers : clearBasket(s, c)
    \/ \E c \in CatalogCallers : \E p \in ArgProducts(c) : removeProduct(s, c, p)

\* one request at a time
NextCheckoutSeq == CheckoutStep(1, Callers, ArgHeaders)
SpecCheckoutSeq == InitCheckoutSeq /\ [][NextCheckoutSeq]_vars

InitCheckout ==
    /\ status = [p \in Products |-> "live"]
    /\ stock = [p \in Products |-> 0]
    /\ reviews = [p \in Products |-> <<>>]
    /\ basket = [u \in Users |-> IF u = "u1" THEN <<Line("p1", 2)>> ELSE <<Line("p2", 1)>>]
    /\ ledger = [p \in Products |-> NewLedger(stock[p])]
    /\ InitShop
    /\ InitRequests

\* concurrent requests of one user and of callers without identity
OverlapStep(s) ==
    \/ /\ calls < MaxOverlap
       /\ \E c \in CatalogCallers : \E h \in ArgHeaders, items \in ArgItems(c) :
              checkout_findUser(s, c, h, items)
    \/ checkout_save(s)
    \/ checkout_find(s)
    \/ \E accepted \in BOOLEAN : checkout_product(s, accepted)
    \/ \E accepted \in BOOLEAN : checkout_price(s, accepted)
    \/ \E accepted \in BOOLEAN : checkout_session(s, accepted)
    \/ /\ calls < MaxOverlap
       /\ \E c \in CatalogCallers : clearBasket(s, c)
    \/ /\ calls < MaxOverlap
       /\ \E c \in CatalogCallers : \E p \in ArgProducts(c) : removeProduct(s, c, p)

NextCheckout == \E s \in Slots : OverlapStep(s)
SpecCheckout == InitCheckout /\ [][NextCheckout]_vars

(***************************************************************************)
(* The whole shop, one request at a time, called by one user or by nobody  *)
(***************************************************************************)

Init ==
    /\ status = [p \in Products |-> IF p = "p1" THEN "live" ELSE "absent"]
    /\ stock = [p \in Products |-> IF p = "p1" THEN 1 ELSE 0]
    /\ reviews = [p \in Products |-> <<>>]
    /\ basket = [u \in Users |-> IF u = "u1" THEN <<Line("p1", 2)>> ELSE <<>>]
    /\ ledger = [p \in Products |-> NewLedger(stock[p])]
    /\ orders = [u \in Users |-> <<>>]
    /\ pricing = [p \in Products |-> Pricing(1995, FALSE, Undefined)]
    /\ category = [c \in Categories |-> [status |-> "absent", products |-> <<>>]]
    /\ account = [u \in Users |-> IF u = "u1" THEN "live" ELSE "absent"]
    /\ InitRequests

CatalogStep(s) ==
    \/ \E c \in CatalogCallers : \E p \in ArgProducts(c) : addProduct(s, c, p, 1)
    \/ \E c \in CatalogCallers : \E p \in ArgProducts(c) : removeProduct(s, c, p)
    \/ \E c \in CatalogCallers : \E p \in ArgProducts(c) : addStock_findById(s, c, p, 1)
    \/ addStock_save(s)
    \/ \E c \in CatalogCallers : \E p \in ArgProducts(c) : removeStock_findById(s, c, p, 1)
    \/ removeStock_save(s)
    \/ \E c \in CatalogCallers, k \in Categories : addCategory(s, c, k)
    \/ \E c \in CatalogCallers, k \in Categories : removeCategory(s, c, k)
    \/ \E c \in CatalogCallers, k \in Categories : \E p \in ArgProducts(c) :
           addProductToCategory_findCategory(s, c, p, k)
    \/ addProductToCategory_findProduct(s)
    \/ addProductToCategory_push(s)

CustomerStep(s) ==
    \/ \E c \in CatalogCallers : \E p \in ArgProducts(c) : addReview_findById(s, c, p, "good", 5)
    \/ addReview_push(s)
    \/ \E c \in CatalogCallers : \E p \in ArgProducts(c) : editReview_findById(s, c, p, "bad", 1)
    \/ editReview_save(s)
    \/ \E c \in CatalogCallers : \E p \in ArgProducts(c) : addBasketItem_findProduct(s, c, p, 1)
    \/ addBasketItem_findUser(s)
    \/ addBasketItem_write(s)
    \/ \E c \in CatalogCallers : \E p \in ArgProducts(c) : removeBasketItem_findProduct(s, c, p)
    \/ removeBasketItem_findUser(s)
    \/ removeBasketItem_pull(s)
    \/ \E c \in CatalogCallers : \E p \in ArgProducts(c) : decrementBasketItem_findProduct(s, c, p)
    \/ decrementBasketItem_findUser(s)
    \/ decrementBasketItem_write(s)
    \/ \E c \in CatalogCallers : clearBasket(s, c)
    \/ \E c \in CatalogCallers : \E h \in HeaderInputs, items \in ArgItems(c) :
           checkout_findUser(s, c, h, items)
    \/ checkout_save(s)
    \/ checkout_find(s)
    \/ \E accepted \in BOOLEAN : checkout_product(s, accepted)
    \/ \E u \in Users : addUser(s, u)
    \/ \E u \in Users, password \in Passwords : login_findOne(s, u, password)
    \/ login_isCorrectPassword(s)
    \/ \E accepted \in BOOLEAN : checkout_price(s, accepted)
    \/ \E accepted \in BOOLEAN : checkout_session(s, accepted)

Next == CatalogStep(1) \/ CustomerStep(1)
Spec == Init /\ [][Next]_vars

(***************************************************************************)
(* Claims about the catalog                                                *)
(***************************************************************************)

\* C1: the stock of every product is >= 0 in every reachable state, whatever
\* addStock and removeStock calls (any integer quantities, any interleaving
\* of their findById and save steps) have run.
C1_StockNeverNegative == \A p \in Products : stock[p] >= 0

RemoveStockInFlight(p) ==
    \E s \in Slots : req[s].op = "removeStock" /\ req[s].p = p /\ ~Idle(s)

\* C2: when only removeStock calls (of quantities >= 1) have changed a
\* product's stock and none is still in flight, the stock is the initial stock
\* minus the sum of the quantities of the removeStock calls that succeeded.
C2_RemoveStockNoLostUpdate ==
    \A p \in Products :
        (/\ ProductFound(p) /\ ~RemoveStockInFlight(p)
         /\ ledger[p].adds = 0 /\ ~ledger[p].nonpos)
            => stock[p] = ledger[p].init - ledger[p].removed

\* the step in which the request of slot s completes
Completes(s) == ~Idle(s) /\ req'[s] = IdleReq

\* C3: a removeStock by an authenticated caller on an existing product whose
\* quantity exceeds the stock it found fails with the "Insufficient stock"
\* error (code BAD_REQUEST) and changes nothing in the store.
C3_RemoveStockInsufficient ==
    [][\A s \in Slots :
          (req[s].op = "removeStock" /\ Completes(s)
             /\ req[s].qty > req[s].prod.stock)
          => (last'.result = "BAD_REQUEST" /\ dbVars' = dbVars)]_vars

C3_Witness ==
    /\ last.op = "removeStock" /\ last.result = "BAD_REQUEST"
    /\ last.caller # NoUser /\ ProductFound(last.p)
    /\ last.qty > last.prod.stock
    /\ stock[last.p] = last.prod.stock

(***************************************************************************)
(* Claims about the reviews                                                *)
(***************************************************************************)
HasReviewBy(list, u) == \E i \in 1 .. Len(list) : list[i].username = u

ReviewsBy(list, u) == {i \in 1 .. Len(list) : list[i].username = u}

OneReviewPerUser == \A p \in Products, u \in Users : Cardinality(ReviewsBy(reviews[p], u)) <= 1

\* the request started by this step: the one that completed at once, or the
\* one now suspended in a slot
Started ==
    IF req' = req THEN last'
    ELSE LET s == CHOOSE t \in Slots : req'[t] # req[t] IN req'[s]

\* this step starts a request of resolver op by caller c on product p
Starts(op, c, p) ==
    /\ calls' = calls + 1
    /\ Started.op = op /\ Started.caller = c /\ Started.p = p

\* C8: an addReview by a user whose review is already in the product's list
\* fails with FORBIDDEN and leaves the store unchanged; and with one request
\* at a time no product's list ever holds two reviews of one username.
C8_SecondAddReviewRejected ==
    /\ [][\A u \in Users, p \in Products :
             (ProductFound(p) /\ HasReviewBy(reviews[p], u) /\ Starts("addReview", u, p))
             => (req' = req /\ last'.result = "FORBIDDEN" /\ dbVars' = dbVars)]_vars
    /\ []OneReviewPerUser

C8_Witness ==
    /\ last.op = "addReview" /\ last.result = "FORBIDDEN" /\ last.caller \in Users
    /\ ProductFound(last.p)
    /\ Cardinality(ReviewsBy(reviews[last.p], last.caller)) = 1
    /\ reviews[last.p] = last.prod.reviews
    /\ Len(reviews[last.p]) = 2

\* C9: whatever the interleaving of the scan and the append of concurrent
\* addReview calls, at most one review of a username is in a product's list.
C9_ConcurrentAddReviewOnce == OneReviewPerUser

\* C10: an editReview by a user who has a review on the product overwrites
\* the body and the rating of that review with the given values, keeps the
\* number of reviews, and leaves every other review of the product (and every
\* other product's list) as it is.
C10_EditReviewInPlace ==
    [][\A s \in Slots :
          (req[s].op = "editReview" /\ Completes(s) /\ ProductFound(req[s].p))
          => LET p == req[s].p
                 i == req[s].idx IN
             /\ last'.result = "OK"
             /\ reviews[p][i].username = req[s].caller
             /\ Len(reviews'[p]) = Len(reviews[p])
             /\ reviews'[p][i] = [username |-> req[s].caller, review |-> req[s].body,
                                  rating |-> req[s].rating]
             /\ \A j \in 1 .. Len(reviews[p]) : j # i => reviews'[p][j] = reviews[p][j]
             /\ \A q \in Products : q # p => reviews'[q] = reviews[q]
             /\ UNCHANGED <<status, stock, basket, shopVars>>]_vars

C10_Witness ==
    /\ last.op = "editReview" /\ last.result = "OK" /\ ProductFound(last.p)
    /\ Len(reviews[last.p]) = 2
    /\ reviews[last.p][last.idx].username = last.caller
    /\ reviews[last.p][last.idx].review = last.body
    /\ reviews[last.p][last.idx].rating = last.rating
    /\ last.prod.reviews[last.idx].review # last.body
    /\ last.prod.reviews[last.idx].rating # last.rating

(***************************************************************************)
(* Claims about the baskets                                                *)
(***************************************************************************)
LinesOf(list, p) == {i \in 1 .. Len(list) : list[i].product = p}

\* C4: in every reachable state a basket holds at most one line per product,
\* whatever addBasketItem, removeBasketItem, decrementBasketItem and
\* clearBasket calls have run and however their steps interleave.
C4_OneLinePerProduct ==
    \A u \in Users, p \in Products : Cardinality(LinesOf(basket[u], p)) <= 1

\* this step is the last one of an addBasketItem / decrementBasketItem request
\* of slot s that found the product and read the basket
Writes(s, op) == req[s].op = op /\ req[s].pc = "user" /\ Completes(s)

OtherBasketsUnchanged(u) == \A v \in Users : v # u => basket'[v] = basket[v]

\* C5: with one request at a time, when addBasketItem(p, q1) by a user whose
\* basket had no line for p is followed by addBasketItem(p, q2) by that user,
\* the basket is the earlier one with one more line, for p, of quantity q1+q2.
C5_AddTwiceOneLine ==
    [][\A s \in Slots :
          (/\ Writes(s, "addBasketItem")
           /\ last.op = "addBasketItem" /\ last.result = "OK"
           /\ last.caller = req[s].caller /\ last.p = req[s].p
           /\ last.idx = 0)
          => LET u == req[s].caller IN
             /\ last'.result = "OK"
             /\ LinesOf(last.usr, req[s].p) = {}
             /\ basket'[u] = Append(last.usr, Line(req[s].p, last.qty + req[s].qty))
             /\ OtherBasketsUnchanged(u)]_vars

C5_Witness ==
    /\ calls = 2
    /\ last.op = "addBasketItem" /\ last.result = "OK" /\ last.qty = 1
    /\ last.usr = <<Line("p1", 2), Line("p2", 1)>> /\ last.p = "p2"
    /\ basket[last.caller] = <<Line("p1", 2), Line("p2", 2)>>

\* C6: every basket item in every reachable state has a quantity >= 1.
C6_QuantityPositive ==
    \A u \in Users : \A i \in 1 .. Len(basket[u]) :
        IsItem(basket[u][i]) => basket[u][i].quantity >= 1

RemoveAt(list, i) == SubSeq(list, 1, i - 1) \o SubSeq(list, i + 1, Len(list))

\* C7: with one request at a time, decrementBasketItem on a line of quantity 1
\* removes that line, on a line of quantity n > 1 it leaves the line with
\* quantity n - 1, and in both cases every other line is unchanged.
C7_DecrementItem ==
    [][\A s \in Slots :
          Writes(s, "decrementBasketItem")
          => LET u == req[s].caller
                 i == req[s].idx
                 n == basket[u][i].quantity IN
             /\ basket[u][i].product = req[s].p
             /\ n = 1 => basket'[u] = RemoveAt(basket[u], i)
             /\ n > 1 => basket'[u] = [basket[u] EXCEPT ![i] = Line(req[s].p, n - 1)]
             /\ n >= 1 => last'.result = "OK"
             /\ OtherBasketsUnchanged(u)]_vars

C7_Witness ==
    /\ last.op = "decrementBasketItem" /\ last.result = "OK"
    /\ Len(last.usr) = 2
    /\ last.usr[last.idx].quantity = 1
    /\ basket[last.caller] = RemoveAt(last.usr, last.idx)

(***************************************************************************)
(* Claims about the identity test                                          *)
(***************************************************************************)
MutatingOps ==
    {"addProduct", "removeProduct", "addStock", "removeStock", "addCategory",
     "removeCategory", "addProductToCategory", "addReview", "editReview",
     "addBasketItem", "removeBasketItem", "decrementBasketItem", "clearBasket",
     "checkout"}

\* C11: a request of any mutating resolver made without an identity ends at
\* once, with the "User not authenticated" error for checkout and with
\* FORBIDDEN for every other resolver, and changes nothing in the store.
C11_NoIdentityNoChange ==
    [][(calls' = calls + 1 /\ Started.caller = NoUser /\ Started.op \in MutatingOps)
       => (/\ req' = req
           /\ last'.result = IF last'.op = "checkout" THEN "UNAUTHENTICATED" ELSE "FORBIDDEN"
           /\ dbVars' = dbVars)]_vars

(***************************************************************************)
(* Claims about checkout                                                   *)
(***************************************************************************)
Occurrences(items, p) == Len(SelectSeq(items, LAMBDA x : x = p))

LinesFor(lines, p) == {i \in 1 .. Len(lines) : lines[i].product = p}

\* the last request was a checkout that created its payment session
SessionCreated == last.op = "checkout" /\ last.result = "OK"

\* C12: the manifest counts every product id as often as it occurs in the
\* input list, and the line items of a payment session are exactly one per
\* distinct product id of the input, with that count as quantity.
C12_ManifestLineItems ==
    SessionCreated
    => /\ \A p \in Ids(last.items) : Manifest(last.items)[p] = Occurrences(last.items, p)
       /\ Len(last.lines) = Cardinality(Ids(last.items))
       /\ \A p \in Ids(last.items) :
             /\ Cardinality(LinesFor(last.lines, p)) = 1
             /\ \A i \in LinesFor(last.lines, p) :
                   last.lines[i].quantity = Occurrences(last.items, p)

\* C13: no payment session is created unless every product id of the input
\* was fetched and priced: a session never has line items for a part of the
\* input only.
C13_AllOrNothing ==
    SessionCreated
    => /\ Ids(last.items) = Ids(last.found)
       /\ Ids(last.items) = {last.lines[i].product : i \in 1 .. Len(last.lines)}

OrderStored(store, r) == \E i \in 1 .. Len(store[r.caller]) : store[r.caller][i] = Order(r)

\* this step is a call of slot s's checkout to the payment collaborator
PaymentCall(s) ==
    /\ req[s].op = "checkout" /\ req[s].pc \in {"pricing", "price", "session"}
    /\ req'[s] # req[s]

\* C14: whenever a checkout calls the payment collaborator its Order is
\* already stored in the caller's order history; and when a call is refused
\* the checkout ends with an error and the Order is still stored.
C14_OrderBeforePayment ==
    [][\A s \in Slots :
          PaymentCall(s)
          => /\ OrderStored(orders, req[s])
             /\ OrderStored(orders', req[s])
             /\ (Completes(s) /\ last'.result # "OK")
                   => (last'.result = "ERROR" /\ last'.op = "checkout")]_vars

\* a checkout whose payment call was refused after one product had been
\* priced, its Order in the history
C14_Witness ==
    /\ last.op = "checkout" /\ last.result = "ERROR"
    /\ Len(last.lines) = 1 /\ Len(last.found) = 2
    /\ OrderStored(orders, last)

\* C15: a clearBasket by an authenticated user succeeds and leaves that
\* user's basket empty whatever it held, and leaves every order history and
\* every other user's basket as they were.
C15_ClearBasket ==
    [][\A u \in Users :
          Starts("clearBasket", u, NoProduct)
          => /\ req' = req /\ last'.result = "OK"
             /\ basket'[u] = <<>>
             /\ orders' = orders
             /\ OtherBasketsUnchanged(u)
             /\ UNCHANGED <<status, stock, reviews, pricing, category, account>>]_vars

\* a basket was cleared after its owner's checkout, the other basket still full
C15_Witness ==
    /\ last.op = "clearBasket" /\ last.result = "OK" /\ last.caller = "u1"
    /\ basket["u1"] = <<>> /\ basket["u2"] # <<>>
    /\ orders["u1"] # <<>>

(***************************************************************************)
(* Further claims about the baskets                                        *)
(***************************************************************************)
\* C16: concurrent addBasketItem calls on one line lose no increment: when
\* two calls of a user for a product have both read the line with quantity q
\* and both have completed, the line's quantity is q plus both quantities.
C16_ConcurrentAddsSum ==
    [][\A s \in Slots :
          LET u == req[s].caller
              i == req[s].idx IN
          (/\ Writes(s, "addBasketItem") /\ i > 0 /\ req[s].qty >= 1
           /\ last.op = "addBasketItem" /\ last.result = "OK" /\ last.qty >= 1
           /\ last.caller = u /\ last.p = req[s].p
           /\ last.idx = i /\ last.usr = req[s].usr)
          => /\ last'.result = "OK"
             /\ i <= Len(basket'[u])
             /\ basket'[u][i] = Line(req[s].p, req[s].usr[i].quantity + last.qty + req[s].qty)]_vars

(***************************************************************************)
(* Further claims about the reviews                                        *)
(***************************************************************************)
\* C17: an editReview by an authenticated user on an existing product whose
\* list holds no review of that user fails with FORBIDDEN and leaves the
\* review list, and the rest of the store, unchanged.
C17_EditWithoutReview ==
    [][\A u \in Users, p \in Products :
          (ProductFound(p) /\ ~HasReviewBy(reviews[p], u) /\ Starts("editReview", u, p))
          => (req' = req /\ last'.result = "FORBIDDEN" /\ dbVars' = dbVars)]_vars

\* the edit was refused on a product that carries somebody else's review
C17_Witness ==
    /\ last.op = "editReview" /\ last.result = "FORBIDDEN" /\ last.caller \in Users
    /\ ProductFound(last.p)
    /\ reviews[last.p] # <<>> /\ ~HasReviewBy(reviews[last.p], last.caller)
    /\ reviews[last.p] = last.prod.reviews

(***************************************************************************)
(* Claims about a removal that finds no line                               *)
(***************************************************************************)
RemovalOps == {"removeBasketItem", "decrementBasketItem"}

\* slot s's removeBasketItem / decrementBasketItem has found its product and
\* now reads a basket that holds no line for it
ScansWithoutLine(s) ==
    /\ req[s].op \in RemovalOps /\ req[s].pc = "product"
    /\ req'[s] # req[s]
    /\ LinesOf(basket[req[s].caller], req[s].p) = {}

\* C18: a removeBasketItem or decrementBasketItem for an existing
\* product without a line in the caller's basket is a silent no-op: the
\* basket is unchanged and the call returns the user, not an error.
C18_AbsentLineSilent ==
    [][\A s \in Slots :
          ScansWithoutLine(s)
          => (Completes(s) /\ last'.result = "OK" /\ basket' = basket)]_vars

(***************************************************************************)
(* Claims about the prices and the order history                           *)
(***************************************************************************)
\* the sale price when the product is on sale, the list price otherwise
EffectivePrice(doc) == IF doc.onSale THEN doc.salePrice ELSE doc.price

\* C19: the unit amount of every line item of a payment session is the
\* product's effective price: its sale price whenever it is on sale, a sale
\* price of 0 included, and its list price otherwise.
C19_EffectivePrice ==
    SessionCreated
    => \A i \in 1 .. Len(last.lines) :
          last.lines[i].unit_amount
              = UnitAmount(EffectivePrice(pricing[last.lines[i].product]))

\* the checkouts of user u whose save is this step
SavingCheckouts(u) ==
    {s \in Slots : /\ req[s].op = "checkout" /\ req[s].caller = u
                   /\ req[s].pc = "user" /\ req'[s].pc = "saved"}

\* C20: order histories are append-only: the save of a checkout, however it
\* interleaves with other checkouts of the same user, appends exactly one
\* Order holding the input product list, and no other step of any resolver
\* changes an order history; and every checkout of an authenticated user
\* goes on to that save, so n checkouts add n entries.
C20_OrdersAppendOnly ==
    /\ [][\A u \in Users :
             IF SavingCheckouts(u) = {}
             THEN orders'[u] = orders[u]
             ELSE \E s \in SavingCheckouts(u) :
                     orders'[u] = Append(orders[u], [products |-> req[s].items,
                                                     purchaseDate |-> req[s].stamp])]_vars
    /\ [][\A u \in Users :
             (calls' = calls + 1 /\ Started.op = "checkout" /\ Started.caller = u)
             => \E s \in Slots : req'[s] # req[s] /\ req'[s].pc = "user"]_vars

(***************************************************************************)
(* Claims about baskets that reference a deleted product                   *)
(***************************************************************************)
LinesOfProduct(list, p) == SelectSeq(list, LAMBDA line : line.product = p)

\* this step is a clearBasket of user u
ClearsBasket(u) ==
    calls' = calls + 1 /\ last'.op = "clearBasket" /\ last'.caller = u /\ req' = req

\* C21: removeProduct leaves every basket unchanged; a removeBasketItem or
\* decrementBasketItem started for a deleted product fails with NOT_FOUND
\* and changes nothing; and the lines of a basket that reference a deleted
\* product stay as they are in every step but a clearBasket of their owner.
C21_DeletedProductLinesSurvive ==
    /\ [][(calls' = calls + 1 /\ Started.op = "removeProduct") => basket' = basket]_vars
    /\ [][\A u \in Users, p \in Products :
             (status[p] = "deleted"
                /\ (Starts("removeBasketItem", u, p) \/ Starts("decrementBasketItem", u, p)))
             => (req' = req /\ last'.result = "NOT_FOUND" /\ dbVars' = dbVars)]_vars
    /\ [][\A u \in Users, p \in Products :
             (status[p] = "deleted"
                /\ LinesOfProduct(basket'[u], p) # LinesOfProduct(basket[u], p))
             => ClearsBasket(u)]_vars

\* a removeBasketItem for a deleted product was refused while the caller's
\* basket holds a line for it
C21_Witness ==
    /\ last.op = "removeBasketItem" /\ last.result = "NOT_FOUND" /\ last.caller \in Users
    /\ status[last.p] = "deleted"
    /\ LinesOfProduct(basket[last.caller], last.p) # <<>>

=============================================================================
